---- MODULE Spec2Model ----
(***************************************************************************)
(* Model of the Node.js launcher of toolhive-mcp (bin/toolhive-mcp.js):     *)
(* interpreter probing, virtual-environment creation, the dependency        *)
(* install cascade, the optional setup.py step, the server child and the    *)
(* relay of SIGINT/SIGTERM.  One launcher run is one execution of main();   *)
(* the file system (.venv, requirements.txt, setup.py) outlives a run.      *)
(***************************************************************************)
EXTENDS Integers, Sequences, FiniteSets, TLC

(* ------------------------------ bounds --------------------------------- *)
MaxRuns     == 2   \* launcher runs over the same package directory
MaxSignals  == 1   \* signals delivered to the launcher in one run
MaxExitCode == 1   \* exit codes of the server child are 0..MaxExitCode
MaxChildCode == 50 \* exit codes of the child of bin/setup.js: 0..MaxChildCode

(* --------------------------- program data ------------------------------ *)
\* checkPython: const pythonCommands = ['python3', 'python']
pythonCommands == <<"python3", "python">>

\* JavaScript indexes from 0, sequences here from 1: checkNext(0) is index 1
FirstIndex == 1

Idx   == 1..Len(pythonCommands)
Calls == 1..2          \* 1: checkPython in setupPython, 2: in runServer
Signals == {"SIGINT", "SIGTERM"}
ProbeOutcomes == {"ok", "fail", "spawnerr"}
VenvPython == "venvPython"   \* <packageDir>/.venv/bin/python3

\* variant: the two user-scope methods change places
installMethods_swapped ==
  << [name |-> "virtual environment", cmd |-> "final",
      user |-> FALSE, breakSys |-> FALSE],
     [name |-> "user install", cmd |-> "python",
      user |-> TRUE, breakSys |-> FALSE],
     [name |-> "user install with break-system-packages", cmd |-> "python",
      user |-> TRUE, breakSys |-> TRUE],
     [name |-> "system install with break-system-packages", cmd |-> "python",
      user |-> FALSE, breakSys |-> TRUE] >>

\* installMethods: cmd "final" is finalPythonCmd, "python" is pythonCmd;
\* user / breakSys are the --user / --break-system-packages arguments
installMethods ==
  << [name |-> "virtual environment", cmd |-> "final",
      user |-> FALSE, breakSys |-> FALSE],
     [name |-> "user install with break-system-packages", cmd |-> "python",
      user |-> TRUE, breakSys |-> TRUE],
     [name |-> "user install", cmd |-> "python",
      user |-> TRUE, breakSys |-> FALSE],
     [name |-> "system install with break-system-packages", cmd |-> "python",
      user |-> FALSE, breakSys |-> TRUE] >>

VARIABLES
  \* host and package directory (inputs; persist across runs)
  probeOut,      \* outcome of '<cmd> --version' for each candidate
  hasReq,        \* requirements.txt exists
  hasSetupPy,    \* setup.py exists
  venvDir,       \* .venv exists
  venvPy,        \* .venv/bin/python3 exists
  venvCreations, \* successful 'python -m venv' runs so far (all runs)
  parentEnv,     \* process.env of the launcher
  setupJs,       \* the bin/setup.js process, when the launcher runs under it
  \* the launcher process
  run,           \* number of the current run
  setupOnly,     \* process.argv includes '--setup-only'
  pc,            \* position of main() / what it awaits
  launcher,      \* "running" | "exited"
  exitStatus,    \* -1 while running, else 0, 1, or 128+n after signal n
  \* checkPython, one record per call
  probes,
  \* setupPython / installPythonDependencies
  pythonCmd, venvCreated, finalPythonCmd,
  venvSpawns, venvReported, venvFailure, attempts, last, installResult,
  warned, setupPyRuns, setupPyState,
  \* runServer
  serverProcess, \* "none" | "running" | "exited" | "spawnfail"
  serverCmd, serverSpawns, serverCode, serverEvents, reported,
  handlers,      \* signals with a process.on handler installed
  rcvd,          \* signals the launcher received, in order
  childSigs,     \* signals delivered to the server child, in order
  childEnv       \* the env option of the server spawn

hostVars   == <<probeOut, hasReq, hasSetupPy, venvDir, venvPy, venvCreations,
                parentEnv, setupJs>>
procVars   == <<run, setupOnly, pc, launcher, exitStatus>>
setupVars  == <<pythonCmd, venvCreated, finalPythonCmd, venvSpawns,
                venvReported, venvFailure, attempts, last, installResult,
                warned, setupPyRuns, setupPyState>>
serverVars == <<serverProcess, serverCmd, serverSpawns, serverCode,
                serverEvents, reported, handlers, rcvd, childSigs, childEnv>>
vars == <<hostVars, procVars, probes, setupVars, serverVars>>

(* ----------------------------- checkPython ----------------------------- *)
EmptyProbe ==
  [result    |-> "unsettled",
   pendError |-> [i \in Idx |-> 0],
   pendClose |-> [i \in Idx |-> 0],
   spawned   |-> [i \in Idx |-> 0]]

\* Promise resolve: only the first settlement counts
resolve(p, v) == IF p.result = "unsettled" THEN [p EXCEPT !.result = v] ELSE p

\* exit code the 'close' event of a probe of candidate i carries; a child
\* that could not be spawned emits 'error' and then 'close' with a negative
\* errno
ProbeCode(i) ==
  CASE probeOut[i] = "ok"       -> 0
    [] probeOut[i] = "fail"     -> 1
    [] probeOut[i] = "spawnerr" -> -2

ProbeSucceeded(code) == code = 0

\* variant: the bound test is off by one, the last candidate is never probed
checkNext_offByOne(p, index) ==
  IF index >= Len(pythonCommands)
  THEN resolve(p, "null")
  ELSE [p EXCEPT !.spawned[index] = @ + 1,
                 !.pendError[index] =
                     IF probeOut[index] = "spawnerr" THEN @ + 1 ELSE @,
                 !.pendClose[index] =
                     IF probeOut[index] = "spawnerr" THEN @ ELSE @ + 1]

\* checkNext(index): resolve(null) past the end, else spawn cmd --version
checkNext(p, index) ==
  IF index > Len(pythonCommands)
  THEN resolve(p, "null")
  ELSE [p EXCEPT !.spawned[index] = @ + 1,
                 !.pendError[index] =
                     IF probeOut[index] = "spawnerr" THEN @ + 1 ELSE @,
                 !.pendClose[index] =
                     IF probeOut[index] = "spawnerr" THEN @ ELSE @ + 1]

checkPython == checkNext(EmptyProbe, FirstIndex)

\* child.on('close', code => code === 0 ? resolve(cmd) : checkNext(index+1))
ProbeClose(c, i) ==
  /\ launcher = "running"
  /\ probes[c].pendClose[i] > 0
  /\ LET p1 == [probes[c] EXCEPT !.pendClose[i] = @ - 1]
     IN probes' = [probes EXCEPT ![c] =
           IF ProbeSucceeded(ProbeCode(i))
           THEN resolve(p1, pythonCommands[i])
           ELSE checkNext(p1, i + 1)]
  /\ UNCHANGED <<hostVars, procVars, setupVars, serverVars>>

\* child.on('error', () => checkNext(index + 1)); 'close' follows 'error'
ProbeError(c, i) ==
  /\ launcher = "running"
  /\ probes[c].pendError[i] > 0
  /\ LET p1 == [probes[c] EXCEPT !.pendError[i] = @ - 1,
                                 !.pendClose[i] = @ + 1]
     IN probes' = [probes EXCEPT ![c] = checkNext(p1, i + 1)]
  /\ UNCHANGED <<hostVars, procVars, setupVars, serverVars>>

(* ------------------------------ helpers -------------------------------- *)
\* process.exit(status) / death by an unhandled signal
Exit(status) ==
  /\ launcher' = "exited"
  /\ exitStatus' = status

\* callbacks and awaits resume only between synchronous blocks; "spawned"
\* and "sigint" are positions inside the synchronous tail of runServer
InEventLoop == pc \notin {"spawned", "sigint"}

PendingProbes(c) ==
  \E i \in Idx : probes[c].pendError[i] > 0 \/ probes[c].pendClose[i] > 0

(* -------------------------------- main --------------------------------- *)
\* main -> setupPython -> await checkPython()
MainStart ==
  /\ launcher = "running" /\ pc = "main"
  /\ probes' = [probes EXCEPT ![1] = checkPython]
  /\ pc' = "probe1"
  /\ UNCHANGED <<hostVars, run, setupOnly, launcher, exitStatus,
                 setupVars, serverVars>>

\* variant: the null check is missing
InterpreterMissing_unchecked(result) == FALSE

\* if (!pythonCmd) of setupPython and of runServer
InterpreterMissing(result) == result = "null"

\* variant: the existence check is missing, the environment is always built
SkipCreation_never == FALSE

\* createVirtualEnv: if (fs.existsSync(venvPath)) ... return true
SkipCreation == venvDir

\* setupPython after the probe, installPythonDependencies up to the first
\* await, createVirtualEnv up to its await
SetupAfterProbe ==
  /\ launcher = "running" /\ pc = "probe1"
  /\ probes[1].result # "unsettled"
  /\ IF InterpreterMissing(probes[1].result)
     THEN /\ Exit(1)
          /\ UNCHANGED <<pc, setupVars>>
     ELSE /\ pythonCmd' = probes[1].result
          /\ UNCHANGED <<launcher, exitStatus, finalPythonCmd, venvFailure,
                         attempts, last, warned, setupPyRuns, setupPyState>>
          /\ IF ~hasReq
             THEN /\ installResult' = "skipped"
                  /\ pc' = "postinstall"
                  /\ UNCHANGED <<venvCreated, venvSpawns, venvReported>>
             ELSE /\ UNCHANGED installResult
                  /\ IF SkipCreation
                     THEN /\ venvReported' = TRUE
                          /\ venvCreated' = TRUE
                          /\ pc' = "venvdone"
                          /\ UNCHANGED venvSpawns
                     ELSE /\ venvSpawns' = venvSpawns + 1
                          /\ pc' = "venv"
                          /\ UNCHANGED <<venvCreated, venvReported>>
  /\ UNCHANGED <<hostVars, run, setupOnly, probes, serverVars>>

\* venvProcess.on('close'): code 0 resolves, any other code rejects and the
\* catch returns false; a failed run may leave a partial .venv behind
VenvClose(code) ==
  /\ launcher = "running" /\ pc = "venv"
  /\ IF code = 0
     THEN /\ venvDir' = TRUE /\ venvPy' = TRUE
          /\ venvCreations' = venvCreations + 1
          /\ venvCreated' = TRUE
          /\ UNCHANGED venvFailure
     ELSE /\ venvDir' \in {venvDir, TRUE}
          /\ venvPy' \in IF venvDir' THEN BOOLEAN ELSE {FALSE}
          /\ venvCreated' = FALSE
          /\ venvFailure' = "exit code"
          /\ UNCHANGED venvCreations
  /\ pc' = "venvdone"
  /\ UNCHANGED <<probeOut, hasReq, hasSetupPy, parentEnv, setupJs, run,
                 setupOnly, launcher,
                 exitStatus, probes, pythonCmd, finalPythonCmd, venvSpawns,
                 venvReported, attempts, last, installResult, warned,
                 setupPyRuns, setupPyState, serverVars>>

\* venvProcess.on('error'): reject, the catch returns false
VenvError ==
  /\ launcher = "running" /\ pc = "venv"
  /\ venvCreated' = FALSE
  /\ venvFailure' = "spawn error"
  /\ pc' = "venvdone"
  /\ UNCHANGED <<hostVars, run, setupOnly, launcher, exitStatus, probes,
                 pythonCmd, finalPythonCmd, venvSpawns, venvReported,
                 attempts, last, installResult, warned, setupPyRuns,
                 setupPyState, serverVars>>

(* --------------------------- install cascade --------------------------- *)
\* the child spawned for installMethods[k]
SpawnInstall(k, fin) ==
  [method |-> k,
   cmd    |-> IF installMethods[k].cmd = "final" THEN fin ELSE pythonCmd,
   res    |-> "pending"]

\* variant: the venv interpreter is used whenever its file exists
InstallInterpreter_anyVenv(created, venvPyExists, probed) ==
  IF venvPyExists THEN VenvPython ELSE probed

\* let finalPythonCmd = pythonCmd; if (venvCreated) { if (existsSync(...)) }
InstallInterpreter(created, venvPyExists, probed) ==
  IF created /\ venvPyExists THEN VenvPython ELSE probed

\* finalPythonCmd of installPythonDependencies, then the first loop pass
CascadeStart ==
  /\ launcher = "running" /\ pc = "venvdone"
  /\ LET fin == InstallInterpreter(venvCreated, venvPy, pythonCmd)
     IN /\ finalPythonCmd' = fin
        /\ attempts' = <<SpawnInstall(1, fin)>>
  /\ pc' = "install"
  /\ UNCHANGED <<hostVars, run, setupOnly, launcher, exitStatus, probes,
                 pythonCmd, venvCreated, venvSpawns, venvReported,
                 venvFailure, last, installResult, warned, setupPyRuns,
                 setupPyState, serverVars>>

\* variant: only the exit code counts
InstallSucceeded_codeOnly(code, marker) == code = 0

\* close handler: code === 0 || stderr.includes('already satisfied') || ...
InstallSucceeded(code, marker) == code = 0 \/ marker

\* for (const method of installMethods): the method after the k-th
NextMethod(k) == k + 1

\* variant: the 'return' after a successful attempt is missing
AfterAttempt_noReturn(k, ok) ==
  IF k < Len(installMethods) THEN "next"
  ELSE IF ok THEN "return" ELSE "exhausted"

\* control flow of one loop pass: 'return' after a resolved promise,
\* 'continue' from the catch, fall out of the loop after the last method
AfterAttempt(k, ok) ==
  IF ok THEN "return"
  ELSE IF k < Len(installMethods) THEN "next" ELSE "exhausted"

\* variant: exhausting the methods ends the launcher with status 1
Exhausted_fatal ==
  /\ installResult' = "exhausted"
  /\ warned' = TRUE
  /\ Exit(1)
  /\ UNCHANGED pc

\* after the loop: error and warning lines, then a normal return
Exhausted ==
  /\ installResult' = "exhausted"
  /\ warned' = TRUE
  /\ pc' = "postinstall"
  /\ UNCHANGED <<launcher, exitStatus>>

\* the awaited promise of the running install child settles; last keeps
\* what the settling child reported (exit code, marker in stderr, error)
InstallSettle(code, marker, err) ==
  /\ launcher = "running" /\ pc = "install"
  /\ LET n    == Len(attempts)
         k    == attempts[n].method
         ok   == ~err /\ InstallSucceeded(code, marker)
         att1 == [attempts EXCEPT ![n].res = IF ok THEN "ok" ELSE "failed"]
         flow == AfterAttempt(k, ok)
     IN CASE flow = "return" ->
               /\ attempts' = att1
               /\ installResult' = "success"
               /\ pc' = "postinstall"
               /\ UNCHANGED <<launcher, exitStatus, warned>>
          [] flow = "next" ->
               /\ attempts' =
                    Append(att1, SpawnInstall(NextMethod(k), finalPythonCmd))
               /\ UNCHANGED <<pc, launcher, exitStatus, installResult,
                              warned>>
          [] OTHER ->
               /\ attempts' = att1
               /\ Exhausted
  /\ last' = [method |-> attempts[Len(attempts)].method, code |-> code,
               marker |-> marker, err |-> err]
  /\ UNCHANGED <<hostVars, run, setupOnly, probes, pythonCmd, venvCreated,
                 finalPythonCmd, venvSpawns, venvReported, venvFailure,
                 setupPyRuns, setupPyState, serverVars>>

\* installProcess.on('close', code => ...)
InstallClose(code, marker) == InstallSettle(code, marker, FALSE)

\* installProcess.on('error', err => reject(err)); the 'close' that follows
\* rejects an already rejected promise and changes nothing
InstallError == InstallSettle(-2, FALSE, TRUE)

(* ------------------------- rest of setupPython ------------------------- *)
\* variant: setup.py runs whenever it exists
RunAdditionalSetup_always(setupPyExists, venvExists) == setupPyExists

\* if (fs.existsSync(setupPyPath) && !fs.existsSync(venvPath)) spawn setup.py
RunAdditionalSetup(setupPyExists, venvExists) ==
  setupPyExists /\ ~venvExists

\* setupPython after 'await installPythonDependencies()'
SetupFiles ==
  /\ launcher = "running" /\ pc = "postinstall"
  /\ IF RunAdditionalSetup(hasSetupPy, venvDir)
     THEN /\ setupPyRuns' = setupPyRuns + 1
          /\ setupPyState' = "running"
          /\ pc' = "setuppy"
     ELSE /\ pc' = "setupdone"
          /\ UNCHANGED <<setupPyRuns, setupPyState>>
  /\ UNCHANGED <<hostVars, run, setupOnly, launcher, exitStatus, probes,
                 pythonCmd, venvCreated, finalPythonCmd, venvSpawns,
                 venvReported, venvFailure, attempts, last, installResult,
                 warned, serverVars>>

\* setupProcess 'close' (any code) and 'error' both resolve; setup.py is the
\* project's one-time setup, which may itself create .venv
SetupPySettle(outcome) ==
  /\ launcher = "running" /\ pc = "setuppy"
  /\ setupPyState' = outcome
  /\ IF outcome = "error"
     THEN UNCHANGED <<venvDir, venvPy>>
     ELSE /\ venvDir' \in {venvDir, TRUE}
          /\ venvPy' \in IF venvDir' THEN {venvPy, TRUE} ELSE {FALSE}
  /\ pc' = "setupdone"
  /\ UNCHANGED <<probeOut, hasReq, hasSetupPy, parentEnv, setupJs,
                 venvCreations, run,
                 setupOnly, launcher, exitStatus, probes, pythonCmd,
                 venvCreated, finalPythonCmd, venvSpawns, venvReported,
                 venvFailure, attempts, last, installResult, warned,
                 setupPyRuns, serverVars>>

\* variant: the flag is ignored
SetupOnlyReturn_ignored == FALSE

\* args.includes('--setup-only')
SetupOnlyReturn == setupOnly

\* main after 'await setupPython()': return on --setup-only, else runServer
\* up to 'await checkPython()'
MainAfterSetup ==
  /\ launcher = "running" /\ pc = "setupdone"
  /\ IF SetupOnlyReturn
     THEN /\ pc' = "done"
          /\ UNCHANGED probes
     ELSE /\ probes' = [probes EXCEPT ![2] = checkPython]
          /\ pc' = "probe2"
  /\ UNCHANGED <<hostVars, run, setupOnly, launcher, exitStatus, setupVars,
                 serverVars>>

(* ------------------------------ runServer ------------------------------ *)
\* environments: a variable is unset or holds a string, possibly empty
EnvNames  == {"PYTHONPATH", "PYTHONUSERBASE", "PATH"}
Unset     == "<unset>"
EnvValues == {Unset, "", "/opt/a", "/opt/b"}
PackageDir      == "<packageDir>"       \* path.dirname(__dirname)
DefaultUserBase == "<home>/.local"      \* path.join(os.homedir(), '.local')
NoEnv    == [v \in EnvNames |-> "<none>"]   \* nothing spawned yet
PlainEnv == [v \in EnvNames |-> IF v = "PATH" THEN "/opt/a" ELSE Unset]
NoWrapper == [state |-> "none", code |-> 0, killed |-> FALSE, status |-> -1]

\* JavaScript truthiness of process.env.X: undefined and '' are falsy
Truthy(x) == x # Unset /\ x # ""

\* variant: the spread comes last, so an inherited PYTHONPATH wins
ServerEnv_spreadLast(env) ==
  [v \in EnvNames |->
     CASE v = "PYTHONPATH" ->
            IF env[v] # Unset THEN env[v] ELSE PackageDir
       [] v = "PYTHONUSERBASE" ->
            IF Truthy(env[v]) THEN env[v] ELSE DefaultUserBase
       [] OTHER -> env[v]]

\* { ...process.env, PYTHONPATH: packageDir,
\*   PYTHONUSERBASE: process.env.PYTHONUSERBASE || join(homedir(), '.local') }
ServerEnv(env) ==
  [v \in EnvNames |->
     CASE v = "PYTHONPATH"     -> PackageDir
       [] v = "PYTHONUSERBASE" ->
            IF Truthy(env[v]) THEN env[v] ELSE DefaultUserBase
       [] OTHER -> env[v]]

\* variant: the probed interpreter is always used
ServerInterpreter_probed(venvPyExists, probed) == probed

\* fs.existsSync(venvPythonPath) ? venvPythonPath : pythonCmd
ServerInterpreter(venvPyExists, probed) ==
  IF venvPyExists THEN VenvPython ELSE probed

\* runServer after the probe: exit(1) without interpreter, else spawn the
\* server (line 283); a spawn failure shows as 'error' then 'close'
RunServerAfterProbe ==
  /\ launcher = "running" /\ pc = "probe2"
  /\ probes[2].result # "unsettled"
  /\ IF InterpreterMissing(probes[2].result)
     THEN /\ Exit(1)
          /\ UNCHANGED <<pc, serverVars>>
     ELSE /\ serverCmd' = ServerInterpreter(venvPy, probes[2].result)
          /\ serverSpawns' = serverSpawns + 1
          /\ \/ /\ serverProcess' = "running"
                /\ UNCHANGED <<serverCode, serverEvents>>
             \/ /\ serverProcess' = "spawnfail"
                /\ serverCode' = -2
                /\ serverEvents' = <<"error", "close">>
          /\ childEnv' = ServerEnv(parentEnv)
          /\ pc' = "spawned"
          /\ UNCHANGED <<launcher, exitStatus, reported, handlers, rcvd,
                         childSigs>>
  /\ UNCHANGED <<hostVars, run, setupOnly, probes, setupVars>>

\* process.on('SIGINT', ...) at line 300
RegisterSigint ==
  /\ launcher = "running" /\ pc = "spawned"
  /\ handlers' = handlers \cup {"SIGINT"}
  /\ pc' = "sigint"
  /\ UNCHANGED <<hostVars, run, setupOnly, launcher, exitStatus, probes,
                 setupVars, serverProcess, serverCmd, serverSpawns,
                 serverCode, serverEvents, reported, rcvd, childSigs, childEnv>>

\* process.on('SIGTERM', ...) at line 305; runServer and main return
RegisterSigterm ==
  /\ launcher = "running" /\ pc = "sigint"
  /\ handlers' = handlers \cup {"SIGTERM"}
  /\ pc' = "done"
  /\ UNCHANGED <<hostVars, run, setupOnly, launcher, exitStatus, probes,
                 setupVars, serverProcess, serverCmd, serverSpawns,
                 serverCode, serverEvents, reported, rcvd, childSigs, childEnv>>

\* the server child terminates on its own or after a signal
ServerExit(code) ==
  /\ serverProcess = "running"
  /\ serverProcess' = "exited"
  /\ serverCode' = code
  /\ serverEvents' = <<"close">>
  /\ UNCHANGED <<hostVars, procVars, probes, setupVars, serverCmd,
                 serverSpawns, reported, handlers, rcvd, childSigs, childEnv>>

\* variant: a server that ends with a non-zero code is started again
ServerCallback_restart ==
  /\ launcher = "running" /\ InEventLoop
  /\ serverEvents # <<>>
  /\ LET ev == Head(serverEvents)
     IN /\ reported' =
             IF ev = "error" \/ serverCode # 0
             THEN Append(reported, [kind |-> ev, code |-> serverCode])
             ELSE reported
        /\ IF ev = "close" /\ serverCode # 0
           THEN /\ serverProcess' = "running"
                /\ serverSpawns' = serverSpawns + 1
           ELSE UNCHANGED <<serverProcess, serverSpawns>>
  /\ serverEvents' = Tail(serverEvents)
  /\ UNCHANGED <<hostVars, procVars, probes, setupVars, serverCmd,
                 serverCode, handlers, rcvd, childSigs, childEnv>>

\* serverProcess.on('close') prints a non-zero code, .on('error') prints
\* the error; neither sets the launcher's exit status
ServerCallback ==
  /\ launcher = "running" /\ InEventLoop
  /\ serverEvents # <<>>
  /\ LET ev == Head(serverEvents)
     IN reported' =
          IF ev = "error" \/ serverCode # 0
          THEN Append(reported, [kind |-> ev, code |-> serverCode])
          ELSE reported
  /\ serverEvents' = Tail(serverEvents)
  /\ UNCHANGED <<hostVars, procVars, probes, setupVars, serverProcess,
                 serverCmd, serverSpawns, serverCode, handlers, rcvd,
                 childSigs, childEnv>>

\* exit status of a process killed by an unhandled signal (128 + number)
SignalStatus(sig) == IF sig = "SIGINT" THEN 130 ELSE 143

\* serverProcess.kill(sig) reaches the child only while it runs
Relay(sig) ==
  childSigs' = IF serverProcess = "running"
               THEN Append(childSigs, sig) ELSE childSigs

\* the launcher receives SIGINT or SIGTERM: with a handler installed the
\* handler relays it, otherwise the default action ends the launcher
Signal(sig) ==
  /\ launcher = "running"
  /\ Len(rcvd) < MaxSignals
  /\ rcvd' = Append(rcvd, sig)
  /\ IF sig \in handlers
     THEN /\ InEventLoop
          /\ Relay(sig)
          /\ UNCHANGED <<procVars>>
     ELSE /\ Exit(SignalStatus(sig))
          /\ UNCHANGED <<run, setupOnly, pc, childSigs>>
  /\ UNCHANGED <<hostVars, probes, setupVars, childEnv, serverProcess,
                 serverCmd,
                 serverSpawns, serverCode, serverEvents, reported, handlers>>

\* variant: the registered signal handlers keep the event loop alive
LauncherDrain_handlersHold ==
  /\ launcher = "running" /\ pc = "done"
  /\ \A c \in Calls : ~PendingProbes(c)
  /\ serverProcess # "running"
  /\ serverEvents = <<>>
  /\ handlers = {}
  /\ Exit(0)
  /\ UNCHANGED <<hostVars, run, setupOnly, pc, probes, setupVars,
                 serverVars>>

\* main has returned and nothing keeps the event loop alive: no probe
\* child, no server child, no undelivered event; exit status 0
LauncherDrain ==
  /\ launcher = "running" /\ pc = "done"
  /\ \A c \in Calls : ~PendingProbes(c)
  /\ serverProcess # "running"
  /\ serverEvents = <<>>
  /\ Exit(0)
  /\ UNCHANGED <<hostVars, run, setupOnly, pc, probes, setupVars,
                 serverVars>>

(* ------------------------------- runs ---------------------------------- *)
\* variant: the signal handlers are registered when main starts
InitRun_earlyHandlers ==
  /\ pc = "main" /\ launcher = "running" /\ exitStatus = -1
  /\ probes = [c \in Calls |-> EmptyProbe]
  /\ pythonCmd = "none" /\ venvCreated = FALSE /\ finalPythonCmd = "none"
  /\ venvSpawns = 0 /\ venvReported = FALSE /\ venvFailure = "none"
  /\ attempts = <<>> /\ last = [method |-> 0, code |-> -1,
                                 marker |-> FALSE, err |-> FALSE]
  /\ installResult = "none" /\ warned = FALSE /\ setupPyRuns = 0
  /\ setupPyState = "none"
  /\ serverProcess = "none" /\ serverCmd = "none" /\ serverSpawns = 0
  /\ serverCode = -1 /\ serverEvents = <<>> /\ reported = <<>>
  /\ handlers = Signals /\ rcvd = <<>> /\ childSigs = <<>>
  /\ childEnv = NoEnv

NoOutcome == [method |-> 0, code |-> -1, marker |-> FALSE, err |-> FALSE]

InitRun ==
  /\ pc = "main" /\ launcher = "running" /\ exitStatus = -1
  /\ probes = [c \in Calls |-> EmptyProbe]
  /\ pythonCmd = "none" /\ venvCreated = FALSE /\ finalPythonCmd = "none"
  /\ venvSpawns = 0 /\ venvReported = FALSE /\ venvFailure = "none"
  /\ attempts = <<>> /\ last = NoOutcome
  /\ installResult = "none" /\ warned = FALSE /\ setupPyRuns = 0
  /\ setupPyState = "none"
  /\ serverProcess = "none" /\ serverCmd = "none" /\ serverSpawns = 0
  /\ serverCode = -1 /\ serverEvents = <<>> /\ reported = <<>>
  /\ handlers = {} /\ rcvd = <<>> /\ childSigs = <<>>
  /\ childEnv = NoEnv

Init ==
  /\ probeOut \in [Idx -> ProbeOutcomes]
  /\ hasReq \in BOOLEAN /\ hasSetupPy \in BOOLEAN
  /\ venvDir \in BOOLEAN /\ venvPy \in BOOLEAN /\ (venvPy => venvDir)
  /\ venvCreations = 0
  /\ parentEnv = PlainEnv
  /\ setupJs = NoWrapper
  /\ run = 1 /\ setupOnly \in BOOLEAN
  /\ InitRun

\* the launcher is started again on the same package directory
Restart ==
  /\ launcher = "exited" /\ run < MaxRuns
  /\ run' = run + 1
  /\ setupOnly' \in BOOLEAN
  /\ pc' = "main" /\ launcher' = "running" /\ exitStatus' = -1
  /\ probes' = [c \in Calls |-> EmptyProbe]
  /\ pythonCmd' = "none" /\ venvCreated' = FALSE /\ finalPythonCmd' = "none"
  /\ venvSpawns' = 0 /\ venvReported' = FALSE /\ venvFailure' = "none"
  /\ attempts' = <<>> /\ last' = NoOutcome
  /\ installResult' = "none" /\ warned' = FALSE /\ setupPyRuns' = 0
  /\ setupPyState' = "none"
  /\ serverProcess' = "none" /\ serverCmd' = "none" /\ serverSpawns' = 0
  /\ serverCode' = -1 /\ serverEvents' = <<>> /\ reported' = <<>>
  /\ handlers' = {} /\ rcvd' = <<>> /\ childSigs' = <<>>
  /\ childEnv' = NoEnv
  /\ UNCHANGED hostVars

Next ==
  \/ MainStart
  \/ \E c \in Calls, i \in Idx : ProbeClose(c, i)
  \/ \E c \in Calls, i \in Idx : ProbeError(c, i)
  \/ SetupAfterProbe
  \/ \E code \in 0..1 : VenvClose(code)
  \/ VenvError
  \/ CascadeStart
  \/ \E code \in 0..1, marker \in BOOLEAN : InstallClose(code, marker)
  \/ InstallError
  \/ SetupFiles
  \/ \E outcome \in {"exit 0", "exit non-zero", "error"} :
        SetupPySettle(outcome)
  \/ MainAfterSetup
  \/ RunServerAfterProbe
  \/ RegisterSigint
  \/ RegisterSigterm
  \/ \E code \in 0..MaxExitCode : ServerExit(code)
  \/ ServerCallback
  \/ \E sig \in Signals : Signal(sig)
  \/ LauncherDrain
  \/ Restart

Spec == Init /\ [][Next]_vars

\* the event loop runs every callback that is due, the synchronous tail of
\* runServer runs to its end, and a '--version' probe child terminates
Fairness ==
  /\ WF_vars(\E c \in Calls, i \in Idx : ProbeClose(c, i))
  /\ WF_vars(\E c \in Calls, i \in Idx : ProbeError(c, i))
  /\ WF_vars(RegisterSigint)
  /\ WF_vars(RegisterSigterm)
  /\ WF_vars(ServerCallback)
  /\ WF_vars(LauncherDrain)

\* a host where python3 cannot be spawned (so python is probed twice and
\* probe callbacks can still be due when the server runs) and python works;
\* without requirements.txt installPythonDependencies returns at once, so
\* the venv and install steps do not occur; setup.py exists
LiveInit ==
  /\ probeOut = [i \in Idx |-> IF i = 1 THEN "spawnerr" ELSE "ok"]
  /\ hasReq = FALSE /\ hasSetupPy = TRUE
  /\ venvDir = FALSE /\ venvPy = FALSE /\ venvCreations = 0
  /\ parentEnv = PlainEnv
  /\ setupJs = NoWrapper
  /\ run = 1 /\ setupOnly = FALSE
  /\ InitRun

\* the steps of the launcher on that host
LiveNext ==
  \/ MainStart
  \/ \E c \in Calls, i \in Idx : ProbeClose(c, i)
  \/ \E c \in Calls, i \in Idx : ProbeError(c, i)
  \/ SetupAfterProbe
  \/ SetupFiles
  \/ \E outcome \in {"exit 0", "exit non-zero", "error"} :
        SetupPySettle(outcome)
  \/ MainAfterSetup
  \/ RunServerAfterProbe
  \/ RegisterSigint
  \/ RegisterSigterm
  \/ \E code \in 0..MaxExitCode : ServerExit(code)
  \/ ServerCallback
  \/ \E sig \in Signals : Signal(sig)
  \/ LauncherDrain
  \/ Restart

FairSpec == LiveInit /\ [][LiveNext]_vars /\ Fairness

(* ------------------- the server environment on its own ---------------- *)
\* a launcher about to start, on a host where nothing varies but process.env
FixedHost ==
  /\ probeOut = [i \in Idx |-> "ok"]
  /\ hasReq = FALSE /\ hasSetupPy = FALSE
  /\ venvDir = FALSE /\ venvPy = FALSE /\ venvCreations = 0
  /\ run = 1 /\ setupOnly = FALSE
  /\ InitRun

EnvInit ==
  /\ parentEnv \in [EnvNames -> EnvValues]
  /\ setupJs = NoWrapper
  /\ FixedHost

\* const env = {...} of runServer, applied to the launcher's environment
BuildServerEnv ==
  /\ childEnv = NoEnv
  /\ childEnv' = ServerEnv(parentEnv)
  /\ UNCHANGED <<hostVars, procVars, probes, setupVars, serverProcess,
                 serverCmd, serverSpawns, serverCode, serverEvents, reported,
                 handlers, rcvd, childSigs>>

EnvNext == BuildServerEnv

EnvSpec == EnvInit /\ [][EnvNext]_vars

(* ----------------------------- bin/setup.js ---------------------------- *)
\* process.exit(code): null (child killed by a signal) leaves exit status 0
ProcessExit(code, isNull) == IF isNull THEN 0 ELSE code

SetupJsInit ==
  /\ setupJs = [state |-> "start", code |-> 0, killed |-> FALSE,
                status |-> -1]
  /\ parentEnv = PlainEnv
  /\ FixedHost

SetupJsUnchanged ==
  UNCHANGED <<probeOut, hasReq, hasSetupPy, venvDir, venvPy, venvCreations,
              parentEnv, procVars, probes, setupVars, serverVars>>

\* spawn('node', [mainScript, '--setup-only'], ...): started, or not
SetupJsSpawn ==
  /\ setupJs.state = "start"
  /\ \E st \in {"running", "spawnfail"} :
       setupJs' = [setupJs EXCEPT !.state = st]
  /\ SetupJsUnchanged

\* the child ends: with an exit code, or killed by a signal (code null)
SetupChildEnd(code, killed) ==
  /\ setupJs.state = "running"
  /\ setupJs' = [setupJs EXCEPT !.state = "closed", !.code = code,
                                !.killed = killed]
  /\ SetupJsUnchanged

\* setupProcess.on('close', (code) => process.exit(code))
SetupJsClose ==
  /\ setupJs.state = "closed"
  /\ setupJs' = [setupJs EXCEPT !.state = "exited",
                    !.status = ProcessExit(setupJs.code, setupJs.killed)]
  /\ SetupJsUnchanged

\* setupProcess.on('error', ...) => process.exit(1)
SetupJsError ==
  /\ setupJs.state = "spawnfail"
  /\ setupJs' = [setupJs EXCEPT !.state = "exited", !.status = 1]
  /\ SetupJsUnchanged

SetupJsNext ==
  \/ SetupJsSpawn
  \/ \E code \in 0..MaxChildCode : SetupChildEnd(code, FALSE)
  \/ SetupChildEnd(0, TRUE)
  \/ SetupJsClose
  \/ SetupJsError

SetupJsSpec == SetupJsInit /\ [][SetupJsNext]_vars

TypeOK ==
  /\ pc \in {"main", "probe1", "venv", "venvdone", "install", "postinstall",
             "setuppy", "setupdone", "probe2", "spawned", "sigint", "done"}
  /\ launcher \in {"running", "exited"}
  /\ exitStatus \in {-1, 0, 1, 130, 143}
  /\ run \in 1..MaxRuns
  /\ Len(attempts) <= Len(installMethods)
  /\ handlers \subseteq Signals

(* ------------------------------ properties ----------------------------- *)
\* the first candidate whose version check exits 0, "null" if there is none
FirstWorking ==
  IF \E i \in Idx : probeOut[i] = "ok"
  THEN pythonCommands[CHOOSE i \in Idx :
         /\ probeOut[i] = "ok"
         /\ \A j \in 1..(i - 1) : probeOut[j] # "ok"]
  ELSE "null"

\* C1: checkPython probes python3 then python and resolves to the first
\* candidate whose '--version' child exits 0; it resolves to null exactly
\* when no candidate exits 0.  A candidate is probed only after every
\* earlier candidate has been probed and none of them exits 0.
C1_FirstWorkingInterpreter ==
  \A c \in Calls :
    /\ probes[c].result # "unsettled" => probes[c].result = FirstWorking
    /\ \A i \in Idx : probes[c].spawned[i] > 0 =>
         \A j \in 1..(i - 1) :
           probes[c].spawned[j] > 0 /\ probeOut[j] # "ok"

C1_Witness ==
  /\ probeOut[1] = "fail" /\ probeOut[2] = "ok"
  /\ probes[1].result = "python"

\* C2: if install strategy k fails and strategy k+1 succeeds, installation
\* reports success and has returned, and no later strategy is attempted.
C2_StopAfterSuccess ==
  \A k \in 1..(Len(attempts) - 1) :
    (attempts[k].res = "failed" /\ attempts[k + 1].res = "ok") =>
      /\ installResult = "success"
      /\ Len(attempts) = k + 1
      /\ pc # "install"

C2_Witness ==
  /\ Len(attempts) = 3
  /\ attempts[2].res = "failed" /\ attempts[3].res = "ok"
  /\ installResult = "success" /\ pc = "setupdone"

\* the order the specification gives: name, --user, --break-system-packages
StrategyOrder ==
  << <<"virtual environment", FALSE, FALSE>>,
     <<"user install with break-system-packages", TRUE, TRUE>>,
     <<"user install", TRUE, FALSE>>,
     <<"system install with break-system-packages", FALSE, TRUE>> >>

\* C3: strategies are attempted in the order isolated-environment install,
\* user install with --break-system-packages, plain user install, system
\* install with --break-system-packages; a strategy starts only after every
\* earlier one was attempted and failed, and none is attempted twice.
C3_FixedOrder ==
  /\ Len(attempts) <= Len(StrategyOrder)
  /\ \A i \in 1..Len(attempts) :
       LET m == installMethods[attempts[i].method]
       IN /\ attempts[i].method = i
          /\ <<m.name, m.user, m.breakSys>> = StrategyOrder[i]
          /\ \A j \in 1..(i - 1) : attempts[j].res = "failed"

C3_Witness ==
  /\ Len(attempts) = 4
  /\ \A j \in 1..3 : attempts[j].res = "failed"
  /\ attempts[4].res = "pending"

\* C4: an attempt counts as failed exactly when its child could not be
\* spawned or exited non-zero without the 'already satisfied' marker in
\* stderr; a failed attempt advances to the next strategy, any other
\* attempt (also non-zero with the marker) is a success and ends the cascade.
C4_FailureRule ==
  last.method # 0 =>
    LET a == attempts[last.method]
    IN /\ a.res \in {"ok", "failed"}
       /\ (a.res = "failed") <=>
            (last.err \/ (last.code # 0 /\ ~last.marker))
       /\ (a.res = "failed" /\ last.method < Len(installMethods)) =>
            Len(attempts) = last.method + 1
       /\ a.res = "ok" =>
            (Len(attempts) = last.method /\ installResult = "success")

C4_Witness ==
  /\ last.method = 2 /\ last.code = 1 /\ last.marker /\ ~last.err
  /\ attempts[1].res = "failed" /\ attempts[2].res = "ok"
  /\ installResult = "success"

\* C5: when all four strategies fail, installPythonDependencies has printed
\* the warning and returned, the launcher does not exit with status 1, and
\* without --setup-only the server child is spawned before main is done.
C5_ExhaustionNotFatal ==
  installResult = "exhausted" =>
    /\ Len(attempts) = Len(installMethods)
    /\ \A i \in 1..Len(attempts) : attempts[i].res = "failed"
    /\ warned
    /\ pc # "install"
    /\ exitStatus # 1
    /\ (pc = "done" /\ ~setupOnly) => serverSpawns = 1

C5_Witness ==
  /\ installResult = "exhausted" /\ ~setupOnly
  /\ serverSpawns = 1 /\ serverProcess = "running"

\* C6: when no candidate passes the probe the launcher exits with status 1
\* before any dependency work: no venv creation, no install attempt, no
\* setup.py run and no server spawn in that run.
C6_NoInterpreterIsFatal ==
  (\A i \in Idx : probeOut[i] # "ok") =>
    /\ venvSpawns = 0 /\ ~venvReported
    /\ attempts = <<>>
    /\ setupPyRuns = 0
    /\ serverSpawns = 0
    /\ pc \in {"main", "probe1"}
    /\ launcher = "exited" => exitStatus \in {1, 130, 143}
    /\ (launcher = "exited" /\ rcvd = <<>>) =>
         (exitStatus = 1 /\ probes[1].result = "null")

C6_Witness ==
  /\ probes[1].result = "null"
  /\ launcher = "exited" /\ exitStatus = 1 /\ rcvd = <<>>

\* C7 (as claimed): after a SIGTERM the launcher is never gone while the
\* server child it started is still running.
C7_NoOrphanOnSigterm ==
  ~(/\ launcher = "exited"
    /\ serverProcess = "running"
    /\ rcvd # <<>> /\ rcvd[Len(rcvd)] = "SIGTERM")

\* C8 (as claimed): when the server child has exited and the launcher then
\* ends by itself, the launcher's exit status is the child's exit code.
C8_ExitCodePropagated ==
  (/\ launcher = "exited" /\ serverProcess = "exited"
   /\ exitStatus \notin {130, 143}) => exitStatus = serverCode

\* C9: with --setup-only the launcher finishes without a second probe and
\* without a server; without the flag the server is spawned, and only after
\* the probe, the venv step, every install attempt and setup.py are over.
C9_SetupOnly ==
  /\ setupOnly =>
       /\ serverSpawns = 0 /\ serverProcess = "none"
       /\ probes[2] = EmptyProbe
       /\ pc \notin {"probe2", "spawned", "sigint"}
  /\ (probes[2] # EmptyProbe \/ serverSpawns > 0) =>
       /\ ~setupOnly
       /\ pythonCmd # "none"
       /\ installResult \in {"skipped", "success", "exhausted"}
       /\ \A i \in 1..Len(attempts) : attempts[i].res # "pending"
       /\ hasReq => (venvReported \/ venvSpawns = 1)
       /\ setupPyState # "running"
  /\ (~setupOnly /\ pc = "done") => serverSpawns = 1

C9_Witness ==
  /\ setupOnly /\ launcher = "exited" /\ exitStatus = 0
  /\ installResult = "success" /\ serverSpawns = 0

\* C10: createVirtualEnv with an existing .venv spawns nothing, reports the
\* environment as existing and returns true; over any number of runs the
\* environment is created at most once.
C10_VenvIdempotent ==
  /\ venvCreations <= 1
  /\ venvSpawns <= 1
  /\ venvReported => (venvCreated /\ venvSpawns = 0 /\ venvDir)
  /\ venvCreations = 1 => venvDir

C10_Witness ==
  /\ run = 2 /\ venvCreations = 1
  /\ venvReported /\ venvCreated /\ venvSpawns = 0
  /\ pc = "venvdone"

\* C11: when 'python -m venv' fails (non-zero exit or spawn error)
\* createVirtualEnv returns false, the launcher does not exit with status 1,
\* and the install cascade still runs with the probed interpreter as the
\* command of its first attempt, also when the failed run left a .venv.
C11_VenvFailureNotFatal ==
  venvFailure # "none" =>
    /\ ~venvCreated
    /\ venvSpawns = 1
    /\ exitStatus # 1
    /\ pc # "venvdone" =>
         /\ Len(attempts) >= 1
         /\ attempts[1].method = 1
         /\ attempts[1].cmd = pythonCmd
         /\ attempts[1].cmd \in {"python3", "python"}
         /\ finalPythonCmd = pythonCmd

C11_Witness ==
  /\ venvFailure = "exit code" /\ venvDir /\ venvPy
  /\ Len(attempts) = 1 /\ attempts[1].cmd = "python3"
  /\ attempts[1].res = "pending"

\* C12 (as claimed): every SIGINT or SIGTERM the launcher receives while the
\* server child runs is delivered to the child as the same signal, and the
\* child is sent nothing else.
C12_EverySignalRelayed ==
  [][/\ \A sig \in Signals :
          (rcvd' = Append(rcvd, sig) /\ serverProcess = "running") =>
             childSigs' = Append(childSigs, sig)
     /\ (childSigs' # childSigs /\ rcvd' # <<>>) =>
          \E sig \in Signals : /\ rcvd' = Append(rcvd, sig)
                               /\ childSigs' = Append(childSigs, sig)]_vars

\* C13: in one launcher run the server process is spawned at most once,
\* whatever its exit code and whatever signals arrive.
C13_NoRestart ==
  /\ serverSpawns <= 1
  /\ serverProcess = "exited" => serverSpawns = 1
  /\ (serverProcess = "exited" /\ reported # <<>>) => serverEvents = <<>>

C13_Witness ==
  /\ serverProcess = "exited" /\ serverCode = 1
  /\ reported = <<[kind |-> "close", code |-> 1]>>
  /\ Len(rcvd) = MaxSignals
  /\ serverSpawns = 1 /\ launcher = "exited"

\* C14: the server runs with the isolated environment's interpreter when
\* that file exists at launch time, with the probed interpreter otherwise.
C14_ServerInterpreterChoice ==
  serverSpawns > 0 =>
    /\ venvPy => serverCmd = VenvPython
    /\ ~venvPy => (serverCmd = probes[2].result /\ serverCmd = FirstWorking)

C14_Witness ==
  /\ serverSpawns = 1 /\ serverCmd = VenvPython
  /\ ~venvCreated /\ finalPythonCmd = "python"

\* C16 (as claimed): each candidate is probed at most once per checkPython
\* call and the settled result is never null when a candidate exits 0.
C16_ProbedOnce ==
  \A c \in Calls :
    /\ \A i \in Idx : probes[c].spawned[i] <= 1
    /\ (probes[c].result = "null") => (\A i \in Idx : probeOut[i] # "ok")

\* C17: signals are relayed only to the server child and only once it has
\* been spawned; a SIGINT/SIGTERM received during bootstrapping is relayed
\* to nobody and ends the launcher, whatever bootstrap child is running.
C17_RelayOnlyAfterSpawn ==
  /\ serverSpawns = 0 =>
       /\ handlers = {} /\ childSigs = <<>>
       /\ rcvd # <<>> => (launcher = "exited" /\ exitStatus \in {130, 143}
                          /\ Len(rcvd) = 1)
  /\ Len(childSigs) <= Len(rcvd)
  /\ \A i \in 1..Len(childSigs) : \E j \in 1..Len(rcvd) : childSigs[i] = rcvd[j]

C17_Witness ==
  /\ launcher = "exited" /\ exitStatus = 143 /\ rcvd = <<"SIGTERM">>
  /\ pc = "install" /\ attempts[Len(attempts)].res = "pending"
  /\ childSigs = <<>>

\* C20: setup.py is run only when it exists and .venv does not exist after
\* dependency installation, at most once per run; its non-zero exit or
\* spawn error does not abort setup nor make the launcher exit with 1.
C20_AdditionalSetup ==
  /\ setupPyRuns <= 1
  /\ setupPyRuns = 1 =>
       /\ hasSetupPy
       /\ installResult \in {"skipped", "success", "exhausted"}
       /\ ~venvReported /\ venvCreations = 0
  /\ setupPyState = "running" => (~venvDir /\ pc = "setuppy")
  /\ setupPyState \in {"exit 0", "exit non-zero", "error"} =>
       /\ setupPyRuns = 1
       /\ pc \notin {"setuppy", "postinstall"}
       /\ exitStatus # 1
       /\ (launcher = "exited" /\ rcvd = <<>>) => exitStatus = 0
       /\ (pc = "done" /\ ~setupOnly) => serverSpawns = 1

C20_Witness ==
  /\ setupPyState = "error" /\ installResult = "exhausted"
  /\ serverSpawns = 1 /\ launcher = "exited" /\ exitStatus = 0

\* C15 (as claimed): the server child's environment is the parent's with
\* PYTHONPATH set to the package root, PYTHONUSERBASE equal to the inherited
\* value whenever one is present and <home>/.local otherwise, and every
\* other variable unchanged.
C15_EnvAsClaimed ==
  childEnv # NoEnv =>
    /\ childEnv["PYTHONPATH"] = PackageDir
    /\ parentEnv["PYTHONUSERBASE"] # Unset =>
         childEnv["PYTHONUSERBASE"] = parentEnv["PYTHONUSERBASE"]
    /\ parentEnv["PYTHONUSERBASE"] = Unset =>
         childEnv["PYTHONUSERBASE"] = DefaultUserBase
    /\ childEnv["PATH"] = parentEnv["PATH"]

\* C15 (amended): PYTHONPATH is the package root whatever was inherited;
\* PYTHONUSERBASE is the inherited value when that is a non-empty string and
\* <home>/.local when it is unset or empty; other variables pass unchanged.
C15_ServerEnv ==
  childEnv # NoEnv =>
    /\ childEnv["PYTHONPATH"] = PackageDir
    /\ parentEnv["PYTHONUSERBASE"] \in {"/opt/a", "/opt/b"} =>
         childEnv["PYTHONUSERBASE"] = parentEnv["PYTHONUSERBASE"]
    /\ parentEnv["PYTHONUSERBASE"] \in {Unset, ""} =>
         childEnv["PYTHONUSERBASE"] = DefaultUserBase
    /\ childEnv["PATH"] = parentEnv["PATH"]

C15_Witness ==
  /\ parentEnv["PYTHONPATH"] = "/opt/a" /\ parentEnv["PYTHONUSERBASE"] = ""
  /\ parentEnv["PATH"] = "/opt/b"
  /\ childEnv["PYTHONPATH"] = PackageDir
  /\ childEnv["PYTHONUSERBASE"] = DefaultUserBase
  /\ childEnv["PATH"] = "/opt/b"

\* C19 (as claimed): bin/setup.js exits with the exit code of its child and
\* with 1 when the child cannot be spawned, and never with 0 when the child
\* exited non-zero or was killed.
C19_SetupJsStatus ==
  setupJs.state = "exited" =>
    /\ setupJs.status # 0 \/ (~setupJs.killed /\ setupJs.code = 0)
    /\ setupJs.killed \/ setupJs.status \in {setupJs.code, 1}

\* C18: once the server child has exited, the launcher exits too without
\* any further input: the signal handlers and the close/error callbacks
\* leave nothing behind that keeps it alive.
C18_LauncherFollowsChild ==
  (serverProcess = "exited" /\ launcher = "running") ~> (launcher = "exited")

C18_Witness ==
  /\ serverProcess = "exited" /\ serverEvents = <<>>
  /\ handlers = Signals /\ rcvd = <<>>
  /\ launcher = "exited" /\ exitStatus = 0

====
